---- MODULE Spec2Model ----
(***************************************************************************)
(* The Snake game engine of snake-lib (src/snake-lib/src/lib.rs): the      *)
(* coordinate/direction arithmetic, Game::new/turn/grow/advance and the    *)
(* game_step orchestrator, as a state machine over one Game value, the     *)
(* caller-owned tick counter and a record of what the most recent call     *)
(* returned and told the display; and the two front-ends that drive it,    *)
(* the loop of snake-console's main and the animation-frame closure and    *)
(* keydown handler of the browser front-end (src/src/snake.rs).            *)
(*                                                                         *)
(* Option<T> is modelled as a sequence of length 0 (None) or 1 (Some).     *)
(* The VecDeque snake is a sequence whose first element is the front       *)
(* (head) and whose last element is the back (tail).                       *)
(***************************************************************************)
EXTENDS Integers, Sequences, FiniteSets, TLC

\* ---------------------------------------------------------------- bounds
\* on_keydown is explored while at most MaxKeys Turns are queued.
MaxKeys == 2
\* Boards are drawn with width * height <= MaxCells (and each of them in
\* 0..MaxCells, so that empty and one-row boards are among them).
MaxCells == 4
\* Calls that add pending growth are explored while growth stays <= MaxGrowth.
MaxGrowth == 6
\* A direct grow(n) is explored for n in 0..MaxGrowArg.
MaxGrowArg == 2
\* The scripted runs (straight East, no input) are followed for MaxCalls calls.
MaxCalls == 24
\* The straight-East runs use boards of width 1..MaxEastWidth.
MaxEastWidth == 15

\* ------------------------------------------------------ program constants
\* growth: 3 in Game::new
InitialGrowth == 3
\* if *counter > 20u32
CounterLimit == 20
\* game.grow(&3) in game_step
StepGrowth == 3

Directions == {"North", "South", "East", "West"}
Turns == {"Left", "Right"}

None == <<>>
Some(v) == <<v>>

\* SnakeChange { removed, added }
SnakeChange(removed, added) == [removed |-> removed, added |-> added]
NoChange == SnakeChange(None, None)

\* ------------------------------------------------------- pure functions
\* out_of_bounds with the upper edges compared by > instead of >=.
out_of_bounds_inclusive(c, g) ==
    c.x < 0 \/ c.x > g.width \/ c.y < 0 \/ c.y > g.height

\* Coordinate::out_of_bounds
out_of_bounds(c, g) ==
    c.x < 0 \/ c.x >= g.width \/ c.y < 0 \/ c.y >= g.height

\* Direction::turn with the Left and Right arms exchanged.
Direction_turn_mirrored(d, t) ==
    CASE d = "East"  /\ t = "Left"  -> "South"
      [] d = "East"  /\ t = "Right" -> "North"
      [] d = "West"  /\ t = "Left"  -> "North"
      [] d = "West"  /\ t = "Right" -> "South"
      [] d = "North" /\ t = "Left"  -> "East"
      [] d = "North" /\ t = "Right" -> "West"
      [] d = "South" /\ t = "Left"  -> "West"
      [] d = "South" /\ t = "Right" -> "East"

\* Direction::turn with the two West arms exchanged.
Direction_turn_west_swapped(d, t) ==
    CASE d = "East"  /\ t = "Left"  -> "North"
      [] d = "East"  /\ t = "Right" -> "South"
      [] d = "West"  /\ t = "Left"  -> "North"
      [] d = "West"  /\ t = "Right" -> "South"
      [] d = "North" /\ t = "Left"  -> "West"
      [] d = "North" /\ t = "Right" -> "East"
      [] d = "South" /\ t = "Left"  -> "East"
      [] d = "South" /\ t = "Right" -> "West"

\* Direction::turn
Direction_turn(d, t) ==
    CASE d = "East"  /\ t = "Left"  -> "North"
      [] d = "East"  /\ t = "Right" -> "South"
      [] d = "West"  /\ t = "Left"  -> "South"
      [] d = "West"  /\ t = "Right" -> "North"
      [] d = "North" /\ t = "Left"  -> "West"
      [] d = "North" /\ t = "Right" -> "East"
      [] d = "South" /\ t = "Left"  -> "East"
      [] d = "South" /\ t = "Right" -> "West"

\* Coordinate::advance with y growing northwards.
Coordinate_advance_y_up(c, d) ==
    CASE d = "North" -> [x |-> c.x,     y |-> c.y + 1]
      [] d = "South" -> [x |-> c.x,     y |-> c.y - 1]
      [] d = "East"  -> [x |-> c.x + 1, y |-> c.y]
      [] d = "West"  -> [x |-> c.x - 1, y |-> c.y]

\* Coordinate::advance
Coordinate_advance(c, d) ==
    CASE d = "North" -> [x |-> c.x,     y |-> c.y - 1]
      [] d = "South" -> [x |-> c.x,     y |-> c.y + 1]
      [] d = "East"  -> [x |-> c.x + 1, y |-> c.y]
      [] d = "West"  -> [x |-> c.x - 1, y |-> c.y]

\* Game::new with the start cell at ((width - 1) / 2, (height - 1) / 2).
Game_new_off_centre(width, height) ==
    [ snake        |-> << [x |-> (width - 1) \div 2, y |-> (height - 1) \div 2] >>,
      active_cells |-> { [x |-> (width - 1) \div 2, y |-> (height - 1) \div 2] },
      direction    |-> "East",
      width        |-> width,
      height       |-> height,
      growth       |-> InitialGrowth,
      game_over    |-> FALSE ]

\* Game::new with the halves rounded up.
Game_new_rounds_up(width, height) ==
    [ snake        |-> << [x |-> (width + 1) \div 2, y |-> (height + 1) \div 2] >>,
      active_cells |-> { [x |-> (width + 1) \div 2, y |-> (height + 1) \div 2] },
      direction    |-> "East",
      width        |-> width,
      height       |-> height,
      growth       |-> InitialGrowth,
      game_over    |-> FALSE ]

\* Game::new
Game_new(width, height) ==
    [ snake        |-> << [x |-> width \div 2, y |-> height \div 2] >>,
      active_cells |-> { [x |-> width \div 2, y |-> height \div 2] },
      direction    |-> "East",
      width        |-> width,
      height       |-> height,
      growth       |-> InitialGrowth,
      game_over    |-> FALSE ]

\* turn that does nothing once the game is over.
turn_guarded(g, t) ==
    IF g.game_over THEN g ELSE [g EXCEPT !.direction = Direction_turn(@, t)]

\* Game::turn
turn(g, t) == [g EXCEPT !.direction = Direction_turn(@, t)]

\* grow that assigns the amount instead of adding it.
grow_assigns(g, k) == [g EXCEPT !.growth = k]

\* Game::grow
grow(g, k) == [g EXCEPT !.growth = @ + k]

\* snake.front() / snake.back()
front(g) == g.snake[1]
back(g) == g.snake[Len(g.snake)]

\* tail_handling that pops the back of the deque whether or not growth is
\* pending.
tail_handling_both(g) ==
    [game |-> [g EXCEPT !.growth = IF @ > 0 THEN @ - 1 ELSE 0,
                        !.snake = SubSeq(@, 1, Len(@) - 1),
                        !.active_cells = @ \ {back(g)}],
     removed |-> Some(back(g))]

\* tail_handling that pops the front of the deque instead of the back.
tail_handling_pop_front(g) ==
    IF g.growth > 0
    THEN [game |-> [g EXCEPT !.growth = @ - 1], removed |-> None]
    ELSE [game |-> [g EXCEPT !.snake = Tail(@),
                             !.active_cells = @ \ {front(g)}],
          removed |-> Some(front(g))]

\* tail_handling with the active_cells.remove forgotten.
tail_handling_keeps_cell(g) ==
    IF g.growth > 0
    THEN [game |-> [g EXCEPT !.growth = @ - 1], removed |-> None]
    ELSE [game |-> [g EXCEPT !.snake = SubSeq(@, 1, Len(@) - 1)],
          removed |-> Some(back(g))]

\* Game::advance, the growth-or-pop_back branch: the game after it and the
\* cell it removed.
tail_handling(g) ==
    IF g.growth > 0
    THEN [game |-> [g EXCEPT !.growth = @ - 1], removed |-> None]
    ELSE [game |-> [g EXCEPT !.snake = SubSeq(@, 1, Len(@) - 1),
                             !.active_cells = @ \ {back(g)}],
          removed |-> Some(back(g))]

\* collides with the active_cells.contains test forgotten.
collides_wall_only(new_front, g) == out_of_bounds(new_front, g)

\* Game::advance, the condition that ends the game.
collides(new_front, g) ==
    out_of_bounds(new_front, g) \/ new_front \in g.active_cells

\* tick that leaves the game as it was, game_over apart, when it collides.
tick_collision_keeps_tail(g) ==
    LET new_front == Coordinate_advance(front(g), g.direction)
        t == tail_handling(g)
    IN  IF collides(new_front, t.game)
        THEN [game   |-> [g EXCEPT !.game_over = TRUE],
              change |-> NoChange]
        ELSE [game   |-> [t.game EXCEPT !.active_cells = @ \cup {new_front},
                                        !.snake = <<new_front>> \o @],
              change |-> SnakeChange(t.removed, Some(new_front))]

\* tick with the collision test made before the tail is handled.
tick_check_before_tail(g) ==
    LET new_front == Coordinate_advance(front(g), g.direction)
        t == tail_handling(g)
    IN  IF collides(new_front, g)
        THEN [game   |-> [t.game EXCEPT !.game_over = TRUE],
              change |-> SnakeChange(t.removed, None)]
        ELSE [game   |-> [t.game EXCEPT !.active_cells = @ \cup {new_front},
                                        !.snake = <<new_front>> \o @],
              change |-> SnakeChange(t.removed, Some(new_front))]

\* Game::advance, the body run while the game is not over.
tick(g) ==
    LET new_front == Coordinate_advance(front(g), g.direction)
        t == tail_handling(g)
    IN  IF collides(new_front, t.game)
        THEN [game   |-> [t.game EXCEPT !.game_over = TRUE],
              change |-> SnakeChange(t.removed, None)]
        ELSE [game   |-> [t.game EXCEPT !.active_cells = @ \cup {new_front},
                                        !.snake = <<new_front>> \o @],
              change |-> SnakeChange(t.removed, Some(new_front))]

\* advance without the game_over guard.
advance_unguarded(g) == tick(g)

\* advance that reports no change when the cell removed is the cell added.
advance_elides_same_cell(g) ==
    LET r == IF ~g.game_over THEN tick(g) ELSE [game |-> g, change |-> NoChange]
    IN  IF r.change.removed # None /\ r.change.removed = r.change.added
        THEN [r EXCEPT !.change = NoChange]
        ELSE r

\* advance that assigns game_over from the collision test on every call.
advance_reassigns(g) ==
    LET r == tick(g)
    IN  [r EXCEPT !.game.game_over = (r.change.added = None)]

\* Game::advance: the game after the call and the SnakeChange it returns.
advance(g) ==
    IF ~g.game_over THEN tick(g) ELSE [game |-> g, change |-> NoChange]

\* m successive advance() calls on g, as the test loops make them.
RECURSIVE advance_times(_, _)
advance_times(g, m) ==
    IF m = 0 THEN g ELSE advance_times(advance(g).game, m - 1)

\* The SnakeChanges returned by successive advance() calls on g, the i-th of
\* them preceded by turn(ts[i]) when ts[i] holds a Turn, as the tests
\* interleave turn and advance.
RECURSIVE changes_of(_, _)
changes_of(g, ts) ==
    IF Len(ts) = 0 THEN <<>>
    ELSE LET g1 == IF ts[1] # None THEN turn(g, ts[1][1]) ELSE g
             a  == advance(g1)
         IN  <<a.change>> \o changes_of(a.game, SubSeq(ts, 2, Len(ts)))

\* cadence that resets the counter without ever handing out growth.
cadence_never_grows(c) ==
    IF c > CounterLimit
    THEN [counter |-> 0, grown |-> 0]
    ELSE [counter |-> c + 1, grown |-> 0]

\* cadence with the counter compared by >= instead of >.
cadence_ge(c) ==
    IF c >= CounterLimit
    THEN [counter |-> 0, grown |-> StepGrowth]
    ELSE [counter |-> c + 1, grown |-> 0]

\* game_step, the cadence branch on the counter: the counter after it and the
\* growth it hands to game.grow.
cadence(c) ==
    IF c > CounterLimit
    THEN [counter |-> 0, grown |-> StepGrowth]
    ELSE [counter |-> c + 1, grown |-> 0]

\* GameDisplay::update(game, change) and GameDisplay::game_over(game), as the
\* display receives them.
Update(change) == [method |-> "update", change |-> change]
GameOver == [method |-> "game_over"]

\* game_step with the polled Turn applied twice.
game_step_turns_twice(c, g, polled) ==
    LET g1 == IF polled # None THEN turn(turn(g, polled[1]), polled[1]) ELSE g
        k  == cadence(c)
        g2 == IF k.grown > 0 THEN grow(g1, k.grown) ELSE g1
        a  == advance(g2)
    IN  [ counter |-> k.counter,
          game    |-> a.game,
          change  |-> a.change,
          grown   |-> k.grown,
          calls   |-> IF a.game.game_over
                      THEN <<Update(a.change), GameOver>>
                      ELSE <<Update(a.change)>> ]

\* game_step with display.game_over called before display.update.
game_step_game_over_first(c, g, polled) ==
    LET g1 == IF polled # None THEN turn(g, polled[1]) ELSE g
        k  == cadence(c)
        g2 == IF k.grown > 0 THEN grow(g1, k.grown) ELSE g1
        a  == advance(g2)
    IN  [ counter |-> k.counter,
          game    |-> a.game,
          change  |-> a.change,
          grown   |-> k.grown,
          calls   |-> IF a.game.game_over
                      THEN <<GameOver, Update(a.change)>>
                      ELSE <<Update(a.change)>> ]

\* game_step with game.grow called after game.advance.
game_step_grow_late(c, g, polled) ==
    LET g1 == IF polled # None THEN turn(g, polled[1]) ELSE g
        k  == cadence(c)
        a  == advance(g1)
        g2 == IF k.grown > 0 THEN grow(a.game, k.grown) ELSE a.game
    IN  [ counter |-> k.counter,
          game    |-> g2,
          change  |-> a.change,
          grown   |-> k.grown,
          calls   |-> IF g2.game_over
                      THEN <<Update(a.change), GameOver>>
                      ELSE <<Update(a.change)>> ]

\* game_step: polled is what input.poll() returned. The result holds the counter
\* and the game after the call, the change advance() returned, and the display
\* methods called, in order, with the change handed to update.
game_step(c, g, polled) ==
    LET g1 == IF polled # None THEN turn(g, polled[1]) ELSE g
        k  == cadence(c)
        g2 == IF k.grown > 0 THEN grow(g1, k.grown) ELSE g1
        a  == advance(g2)
    IN  [ counter |-> k.counter,
          game    |-> a.game,
          change  |-> a.change,
          grown   |-> k.grown,
          calls   |-> IF a.game.game_over
                      THEN <<Update(a.change), GameOver>>
                      ELSE <<Update(a.change)>> ]

\* WebInput::push_keypress
push_keypress(q, t) == Append(q, t)

\* poll that hands out the oldest Turn and throws the rest of the queue away.
WebInput_poll_clears(q) ==
    IF q = <<>>
    THEN [polled |-> None, keypresses |-> q]
    ELSE [polled |-> Some(Head(q)), keypresses |-> <<>>]

\* WebInput::poll (pop_front): what it returns and the queue it leaves.
WebInput_poll(q) ==
    IF q = <<>>
    THEN [polled |-> None, keypresses |-> q]
    ELSE [polled |-> Some(Head(q)), keypresses |-> Tail(q)]

\* game_step given a WebInput, with poll called until the queue is empty and
\* every Turn it returns applied.
RECURSIVE turn_all(_, _)
turn_all(g, q) == IF q = <<>> THEN g ELSE turn_all(turn(g, Head(q)), Tail(q))

web_step_drains(c, g, q) ==
    [step |-> game_step(c, turn_all(g, q), None), keypresses |-> <<>>]

\* game_step given a WebInput as its input: the one input.poll() of the call
\* and the step on what it returned; the result and the queue left behind.
web_step(c, g, q) ==
    [step       |-> game_step(c, g, WebInput_poll(q).polled),
     keypresses |-> WebInput_poll(q).keypresses]

\* ---------------------------------------------------------------- state
VARIABLES
    game,      \* the Game
    counter,   \* the u32 the caller passes to game_step
    last,      \* the most recent call: its name, game_over on entry, the
               \* SnakeChange it produced, the growth game_step added, and the
               \* display methods it called
    n,         \* calls made so far in a scripted run
    keypresses,\* WebInput.keypresses: the Turns queued by on_keydown
    stale,     \* how many Turns at the front of keypresses were already
               \* queued when the most recent game_step polled
    frames,    \* the frames counter captured by the animation-frame closure
    pending,   \* what will run next: "caller" (calls made directly, as the
               \* tests make them), "console" (the loop of main), "frame" (an
               \* animation frame is requested), "exited" (main has returned)
               \* or "idle" (no animation frame is requested)
    shown      \* what the display has been told since initialize: how many
               \* game_over calls, and whether an update came after one

vars == <<game, counter, last, n, keypresses, stale, frames, pending, shown>>

\* The display right after initialize.
NothingShown == [overs |-> 0, late |-> FALSE]

\* The display after it has received the calls, in order.
RECURSIVE display_after(_, _)
display_after(sh, calls) ==
    IF calls = <<>> THEN sh
    ELSE display_after(
            IF Head(calls).method = "game_over"
            THEN [sh EXCEPT !.overs = @ + 1]
            ELSE [sh EXCEPT !.late = @ \/ sh.overs > 0],
            Tail(calls))

Call(op, was_over, change, grown, calls) ==
    [op |-> op, was_over |-> was_over, change |-> change, grown |-> grown,
     calls |-> calls]

Boards == {b \in (0..MaxCells) \X (0..MaxCells) : b[1] * b[2] <= MaxCells}

\* A game as the front-ends and the tests construct it, with the counter at 0
\* (both front-ends) or past the limit (the cadence test).
Init ==
    /\ \E b \in Boards : game = Game_new(b[1], b[2])
    /\ counter \in {0, CounterLimit + 1}
    /\ last = Call("new", FALSE, NoChange, 0, <<>>)
    /\ n = 0
    /\ keypresses = <<>>
    /\ stale = 0
    /\ frames = 0
    /\ pending = "caller"
    /\ shown = NothingShown

DoTurn(t) ==
    /\ game' = turn(game, t)
    /\ last' = Call("turn", game.game_over, NoChange, 0, <<>>)
    /\ UNCHANGED counter

DoGrow(k) ==
    /\ game.growth + k <= MaxGrowth
    /\ game' = grow(game, k)
    /\ last' = Call("grow", game.game_over, NoChange, 0, <<>>)
    /\ UNCHANGED counter

DoAdvance ==
    LET r == advance(game)
    IN  /\ game' = r.game
        /\ last' = Call("advance", game.game_over, r.change, 0, <<>>)
        /\ UNCHANGED counter

DoStep(polled) ==
    LET r == game_step(counter, game, polled)
    IN  /\ game.growth + cadence(counter).grown <= MaxGrowth
        /\ game' = r.game
        /\ counter' = r.counter
        /\ last' = Call("game_step", game.game_over, r.change, r.grown, r.calls)

\* What input.poll() can return.
Polls == {None} \cup {Some(t) : t \in Turns}

Turn == \E t \in Turns : DoTurn(t) /\ UNCHANGED <<n, keypresses, stale, frames, pending, shown>>
Grow == \E k \in 0..MaxGrowArg : DoGrow(k) /\ UNCHANGED <<n, keypresses, stale, frames, pending, shown>>
Advance == DoAdvance /\ UNCHANGED <<n, keypresses, stale, frames, pending, shown>>
GameStep == \E p \in Polls : DoStep(p) /\ UNCHANGED <<n, keypresses, stale, frames, pending, shown>>

\* Any sequence of turn, grow, advance and game_step calls on one game.
Next == Turn \/ Grow \/ Advance \/ GameStep

Spec == Init /\ [][Next]_vars

\* Boards as the front-ends and the tests make them: both dimensions positive.
PositiveBoards == {b \in Boards : b[1] > 0 /\ b[2] > 0}

\* Only game_step calls on a game with a positive board, as the front-ends and
\* the orchestrator tests drive it.
InitStep ==
    /\ \E b \in PositiveBoards : game = Game_new(b[1], b[2])
    /\ counter \in {0, CounterLimit + 1}
    /\ last = Call("new", FALSE, NoChange, 0, <<>>)
    /\ n = 0
    /\ keypresses = <<>>
    /\ stale = 0
    /\ frames = 0
    /\ pending = "caller"
    /\ shown = NothingShown

SpecStep == InitStep /\ [][GameStep]_vars

\* A fresh game advanced straight East: no turn, no grow, advance() only.
InitEast ==
    /\ \E w \in 1..MaxEastWidth, h \in 1..MaxCells : game = Game_new(w, h)
    /\ counter = 0
    /\ last = Call("new", FALSE, NoChange, 0, <<>>)
    /\ n = 0
    /\ keypresses = <<>>
    /\ stale = 0
    /\ frames = 0
    /\ pending = "caller"
    /\ shown = NothingShown

EastAdvance ==
    n < MaxCalls /\ DoAdvance /\ n' = n + 1 /\ UNCHANGED <<keypresses, stale, frames, pending, shown>>

SpecEast == InitEast /\ [][EastAdvance]_vars

\* A fresh game with the counter at 0, stepped with an input that never has a Turn.
InitNoInput ==
    /\ \E b \in PositiveBoards : game = Game_new(b[1], b[2])
    /\ counter = 0
    /\ last = Call("new", FALSE, NoChange, 0, <<>>)
    /\ n = 0
    /\ keypresses = <<>>
    /\ stale = 0
    /\ frames = 0
    /\ pending = "caller"
    /\ shown = NothingShown

NoInputStep ==
    n < MaxCalls /\ DoStep(None) /\ n' = n + 1 /\ UNCHANGED <<keypresses, stale, frames, pending, shown>>

SpecNoInput == InitNoInput /\ [][NoInputStep]_vars

\* The browser front-end: keydown events queue Turns in the WebInput, and the
\* animation-frame closure calls game_step on it for as long as the game is
\* not over.
InitInput ==
    /\ \E b \in PositiveBoards : game = Game_new(b[1], b[2])
    /\ counter = 0
    /\ last = Call("new", FALSE, NoChange, 0, <<>>)
    /\ n = 0
    /\ keypresses = <<>>
    /\ stale = 0
    /\ frames = 0
    /\ pending = "caller"
    /\ shown = NothingShown

OnKeydown ==
    \E t \in Turns :
        /\ Len(keypresses) < MaxKeys
        /\ keypresses' = push_keypress(keypresses, t)
        /\ UNCHANGED <<game, counter, last, n, stale, frames, pending, shown>>

WebStep ==
    LET w == web_step(counter, game, keypresses)
        r == w.step
    IN  /\ ~game.game_over
        /\ game.growth + cadence(counter).grown <= MaxGrowth
        /\ game' = r.game
        /\ counter' = r.counter
        /\ last' = Call("game_step", game.game_over, r.change, r.grown, r.calls)
        /\ keypresses' = w.keypresses
        /\ stale' = Len(w.keypresses)
        /\ UNCHANGED <<n, frames, pending, shown>>

SpecInput == InitInput /\ [][OnKeydown \/ WebStep]_vars

\* if frames >= 10 in the animation-frame closure
FramesPerStep == 10

\* The two front-ends after start-up: main of snake-console about to test its
\* loop condition, or Snake::start with its first animation frame requested.
\* Snake::new takes any u16 width and height; main uses a positive board.
InitDrivers ==
    /\ \E b \in Boards, p \in {"console", "frame"} :
          /\ p = "console" => b \in PositiveBoards
          /\ game = Game_new(b[1], b[2])
          /\ pending = p
    /\ counter = 0
    /\ last = Call("new", FALSE, NoChange, 0, <<>>)
    /\ n = 0
    /\ keypresses = <<>>
    /\ stale = 0
    /\ frames = 0
    /\ shown = NothingShown

\* main: one iteration of `while !game.game_over`, whose poll can return
\* anything.
ConsoleStep ==
    /\ pending = "console"
    /\ ~game.game_over
    /\ \E p \in Polls :
          LET r == game_step(counter, game, p)
          IN  /\ game.growth + cadence(counter).grown <= MaxGrowth
              /\ game' = r.game
              /\ counter' = r.counter
              /\ last' = Call("game_step", game.game_over, r.change, r.grown, r.calls)
              /\ shown' = display_after(shown, r.calls)
    /\ UNCHANGED <<n, keypresses, stale, frames, pending>>

\* main: the loop condition fails and main returns.
ConsoleExit ==
    /\ pending = "console"
    /\ game.game_over
    /\ pending' = "exited"
    /\ UNCHANGED <<game, counter, last, n, keypresses, stale, frames, shown>>

\* The animation-frame closure that requests the next frame whatever the
\* state of the game.
AnimationFrame_always_requests ==
    LET w == web_step(counter, game, keypresses)
        r == w.step
    IN  /\ pending = "frame"
        /\ IF frames >= FramesPerStep
           THEN /\ game.growth + cadence(counter).grown <= MaxGrowth
                /\ frames' = 0
                /\ game' = r.game
                /\ counter' = r.counter
                /\ last' = Call("game_step", game.game_over, r.change, r.grown, r.calls)
                /\ keypresses' = w.keypresses
                /\ stale' = Len(w.keypresses)
                /\ shown' = display_after(shown, r.calls)
           ELSE /\ frames' = frames + 1
                /\ UNCHANGED <<game, counter, last, keypresses, stale, shown>>
        /\ pending' = "frame"
        /\ UNCHANGED n

\* The animation-frame closure: every frame after ten counted ones runs
\* game_step on the WebInput, and the next frame is requested only while the
\* game is not over.
AnimationFrame ==
    LET w == web_step(counter, game, keypresses)
        r == w.step
    IN  /\ pending = "frame"
        /\ IF frames >= FramesPerStep
           THEN /\ game.growth + cadence(counter).grown <= MaxGrowth
                /\ frames' = 0
                /\ game' = r.game
                /\ counter' = r.counter
                /\ last' = Call("game_step", game.game_over, r.change, r.grown, r.calls)
                /\ keypresses' = w.keypresses
                /\ stale' = Len(w.keypresses)
                /\ shown' = display_after(shown, r.calls)
           ELSE /\ frames' = frames + 1
                /\ UNCHANGED <<game, counter, last, keypresses, stale, shown>>
        /\ pending' = IF ~game'.game_over THEN "frame" ELSE "idle"
        /\ UNCHANGED n

\* A keydown event in the browser, whether or not a frame is still requested.
BrowserKeydown == pending \in {"frame", "idle"} /\ OnKeydown

SpecDrivers ==
    InitDrivers /\ [][ConsoleStep \/ ConsoleExit \/ AnimationFrame \/ BrowserKeydown]_vars

\* game_step called again and again on a fresh game with the counter at 0,
\* whatever the input returns.
SpecStepFair == InitNoInput /\ [][GameStep]_vars /\ WF_vars(GameStep)

\* ---------------------------------------------------------------- claims
Cells(sn) == {sn[i] : i \in DOMAIN sn}
Abs(i) == IF i < 0 THEN -i ELSE i
InBoard(c) == 0 <= c.x /\ c.x < game.width /\ 0 <= c.y /\ c.y < game.height
Notified(calls, name) == \E i \in DOMAIN calls : calls[i].method = name

\* C1: on a game that is over, advance() returns {removed: none, added: none}
\* and leaves the whole game (snake, occupancy set, pending growth) as it was;
\* the call that has just run on an over game returned that empty change and
\* left the game over, so the same holds of every further call.
C1_AdvanceAfterGameOverIsNoop ==
    /\ game.game_over => advance(game) = [game |-> game, change |-> NoChange]
    /\ (last.op = "advance" /\ last.was_over) =>
            last.change = NoChange /\ game.game_over

\* advance() has run on a game that was already over and still held cells and
\* pending growth it could have touched.
C1_Witness ==
    /\ last.op = "advance" /\ last.was_over
    /\ game.growth > 0 /\ Len(game.snake) > 0

\* C2: after any sequence of turn, grow, advance and game_step calls the
\* occupancy set is exactly the set of cells in the snake sequence.
C2_OccupancyMirrorsSnake == game.active_cells = Cells(game.snake)

\* An advance has removed the tail and added a head in the same call.
C2_Witness ==
    /\ last.op \in {"advance", "game_step"}
    /\ last.change.removed # None /\ last.change.added # None

\* C3: the snake is a simple path: its cells are pairwise distinct and every
\* two consecutive cells differ by one unit step along one axis.
C3_SnakeIsSimplePath ==
    /\ \A i, j \in DOMAIN game.snake : i # j => game.snake[i] # game.snake[j]
    /\ \A i \in 1..(Len(game.snake) - 1) :
          Abs(game.snake[i].x - game.snake[i + 1].x)
            + Abs(game.snake[i].y - game.snake[i + 1].y) = 1

\* A snake of four cells bent into a square, the head next to the tail, with
\* growth still pending: the next advance would run into the tail.
C3_Witness ==
    /\ ~game.game_over /\ Len(game.snake) = 4 /\ game.growth > 0
    /\ Abs(game.snake[1].x - game.snake[4].x)
         + Abs(game.snake[1].y - game.snake[4].y) = 1

\* C4: on a board with width > 0 and height > 0, while the game is not over
\* the snake is non-empty and every cell of it is inside the board.
C4_LiveSnakeInsideBoard ==
    (game.width > 0 /\ game.height > 0 /\ ~game.game_over) =>
        /\ Len(game.snake) > 0
        /\ \A i \in DOMAIN game.snake : InBoard(game.snake[i])

\* A live snake whose head has just been moved onto the last column.
C4_Witness ==
    /\ ~game.game_over /\ game.width > 1 /\ game.height > 0
    /\ last.op \in {"advance", "game_step"} /\ last.change.added # None
    /\ game.snake[1].x = game.width - 1

\* C5: game_over is monotonic: no call makes it false once it is true.
C5_GameOverMonotonic == [][game.game_over => game'.game_over]_vars

\* A game_step that polled a Turn and added growth has run on a game that was
\* already over: direction, growth and counter moved, game_over stayed true.
C5_Witness ==
    /\ last.was_over /\ game.game_over
    /\ last.op = "game_step" /\ last.grown > 0 /\ game.direction # "East"

\* C6: advance() on a game that is not over ends the game exactly when the new
\* head (the head moved one unit in the current direction) is outside the
\* board or in the occupancy set as it stands after the tail was handled; then
\* nothing is added. Otherwise the new head is inserted into the occupancy
\* set, pushed to the front of the snake and returned as added.
C6_AdvanceCollisionRule ==
    ~game.game_over =>
        LET new_head == Coordinate_advance(game.snake[1], game.direction)
            pops == game.growth = 0
            body == IF pops THEN SubSeq(game.snake, 1, Len(game.snake) - 1)
                    ELSE game.snake
            occ  == IF pops THEN game.active_cells \ {game.snake[Len(game.snake)]}
                    ELSE game.active_cells
            hit  == ~InBoard(new_head) \/ new_head \in occ
            r    == advance(game)
        IN  /\ r.game.game_over = hit
            /\ hit => /\ r.change.added = None
                      /\ r.game.snake = body
                      /\ r.game.active_cells = occ
            /\ ~hit => /\ r.change.added = Some(new_head)
                       /\ r.game.snake = <<new_head>> \o body
                       /\ r.game.active_cells = occ \cup {new_head}

\* An advance has just ended the game by running into the snake itself: the
\* cell ahead of the head is inside the board.
C6_Witness ==
    /\ last.op = "advance" /\ ~last.was_over /\ game.game_over
    /\ InBoard(Coordinate_advance(game.snake[1], game.direction))

\* C7 as stated: on a fresh game advanced straight East on a board of width w,
\* game_over is false after every advance before the (w/2)-th and true from
\* the (w/2)-th on.
C7_OverOnHalfWidthAdvance ==
    n >= 1 => (game.game_over <=> n >= game.width \div 2)

\* C7 amended: on a board with width > 0 and height > 0 a fresh game advanced
\* straight East is not over after fewer than w - w/2 advances and is over
\* after the (w - w/2)-th; that is w/2 for an even width and w/2 + 1 for an
\* odd one.
C7_OverOnCeilHalfWidthAdvance ==
    (game.width > 0 /\ game.height > 0) =>
        (game.game_over <=> n >= game.width - game.width \div 2)

\* On a board of odd width 7 the 4th advance has just ended the game.
C7_Witness ==
    /\ game.width = 7 /\ game.height > 0 /\ n = 4
    /\ last.op = "advance" /\ ~last.was_over /\ game.game_over

\* C8 as stated: from counter 0 and with no input, the first 20 game_step
\* calls only increment the counter and the 21st resets it to 0 and adds 3
\* units of growth.
C8_ResetOnCall21 ==
    /\ (1 <= n /\ n <= 20) => (counter = n /\ last.grown = 0)
    /\ n = 21 => (counter = 0 /\ last.grown = StepGrowth)

\* C8 amended: from counter 0 and with no input, the first 21 game_step calls
\* only increment the counter (it is 21 after the 21st) and the 22nd call is
\* the one that resets it to 0 and adds 3 units of growth.
C8_ResetOnCall22 ==
    /\ (1 <= n /\ n <= 21) => (counter = n /\ last.grown = 0)
    /\ n = 22 => (counter = 0 /\ last.grown = StepGrowth)

\* The 22nd call has run and added its growth to a game that can still use it.
C8_Witness ==
    /\ n = 22 /\ last.op = "game_step" /\ last.grown = StepGrowth
    /\ game.growth >= StepGrowth

\* C9: whatever the input and the game, game_step resets a counter > 20 to 0
\* and calls grow(3) before advance (a game that is not over then consumes
\* one unit in the same call, so a fresh game stepped with counter 21 is
\* left with growth 5 and counter 0); otherwise it adds exactly 1 to the
\* counter and no growth.
C9_CadenceRule ==
    \A p \in Polls :
        LET r    == game_step(counter, game, p)
            used == IF game.game_over THEN 0 ELSE 1
        IN  /\ counter > 20 =>
                  /\ r.counter = 0
                  /\ r.grown = 3
                  /\ r.game.growth = game.growth + 3 - used
            /\ counter <= 20 =>
                  /\ r.counter = counter + 1
                  /\ r.grown = 0
                  /\ r.game.growth =
                        IF game.growth > 0 THEN game.growth - used ELSE 0
            /\ (last.op = "new" /\ counter = 21) =>
                  r.game.growth = 5 /\ r.counter = 0

\* A fresh game has been stepped once with counter 21.
C9_Witness ==
    /\ last.op = "game_step" /\ last.grown = 3 /\ counter = 0
    /\ game.growth = 5 /\ Len(game.snake) = 2 /\ ~game.game_over

\* C10 as stated: a game_step call notifies display.game_over exactly when
\* game_over became true in that call, so over a run of game_step calls the
\* display is told once.
C10_GameOverNotifiedOnce ==
    last.op = "game_step" =>
        (Notified(last.calls, "game_over") <=> (game.game_over /\ ~last.was_over))

\* C11: every game_step call notifies display.update exactly once, over or not,
\* with the change that call's advance() returned (advance run on the game
\* after the polled Turn and the cadence growth), and before any
\* display.game_over of the same call.
C11_UpdateOncePerStep ==
    \A p \in Polls :
        LET r  == game_step(counter, game, p)
            g1 == IF p = None THEN game
                  ELSE [game EXCEPT !.direction = Direction_turn(@, p[1])]
            g2 == IF counter > 20 THEN [g1 EXCEPT !.growth = @ + 3] ELSE g1
            updates == {i \in DOMAIN r.calls : r.calls[i].method = "update"}
        IN  /\ Cardinality(updates) = 1
            /\ r.calls[1] = [method |-> "update", change |-> advance(g2).change]
            /\ \A i \in DOMAIN r.calls :
                  r.calls[i].method = "game_over" => i > 1

\* A game_step has ended the game on a tick that removed the tail: the display
\* got that removal in update, then game_over.
C11_Witness ==
    /\ last.op = "game_step" /\ ~last.was_over /\ game.game_over
    /\ last.change.removed # None
    /\ last.calls = <<[method |-> "update", change |-> last.change],
                      [method |-> "game_over"]>>

\* C12: a game_step polls its input once (a queue of Turns loses its oldest
\* entry and no other), applies at most one Turn, the polled one, and applies
\* it before advance(): the head added in the step lies one unit from the old
\* head in the direction after that Turn.
C12_OnePollTurnBeforeAdvance ==
    LET w == web_step(counter, game, keypresses)
        d == IF keypresses = <<>> THEN game.direction
             ELSE Direction_turn(game.direction, keypresses[1])
    IN  /\ Len(w.keypresses) =
              IF keypresses = <<>> THEN 0 ELSE Len(keypresses) - 1
        /\ w.step.game.direction = d
        /\ w.step.change.added # None =>
              w.step.change.added = Some(Coordinate_advance(game.snake[1], d))

\* A step has polled a Left while heading East, with another Turn queued
\* behind it: the head it added is one row up and the other Turn is still
\* queued.
C12_Witness ==
    /\ last.op = "game_step" /\ last.change.added # None
    /\ game.direction = "North" /\ Len(game.snake) = 2
    /\ game.snake[1].y = game.snake[2].y - 1
    /\ stale = 1 /\ Len(keypresses) = 1

\* C13 as stated: Turns that were queued when a step polled and were not the
\* one it consumed are dropped: no later step changes the direction by them.
C13_LeftoverTurnsDropped ==
    [][stale > 0 => game'.direction = game.direction]_vars

\* C13 amended: when several Turns are queued in the WebInput, the next step
\* consumes the oldest and leaves the others queued in order, and the step
\* after it consumes the next one, which turns the game again.
C13_QueuedTurnsConsumedInOrder ==
    /\ stale <= Len(keypresses)
    /\ Len(keypresses) >= 2 =>
          LET w1 == web_step(counter, game, keypresses)
              w2 == web_step(w1.step.counter, w1.step.game, w1.keypresses)
              d1 == Direction_turn(game.direction, keypresses[1])
          IN  /\ w1.keypresses = Tail(keypresses)
              /\ w1.step.game.direction = d1
              /\ w2.keypresses = Tail(Tail(keypresses))
              /\ w2.step.game.direction = Direction_turn(d1, keypresses[2])

\* A step has just polled a queue of two Turns: it turned the game by the
\* older one and the other is still queued, on a game that is not over.
C13_Witness ==
    /\ last.op = "game_step" /\ ~game.game_over
    /\ game.direction # "East"
    /\ stale = 1 /\ Len(keypresses) >= 1

\* C14 as stated: a turn() call on a game that is over leaves the whole game,
\* the current direction included, as it was.
C14_TurnAfterGameOverChangesNothing ==
    [][(game.game_over /\ last'.op = "turn") => game' = game]_vars

\* C14 amended: turn() on a game that is over still rotates the direction by
\* the turn table and changes nothing else (snake, occupancy set, growth,
\* board, game_over); a following advance() is the same no-op as before, so
\* the changed direction is never acted on.
C14_TurnAfterGameOverRotatesOnly ==
    game.game_over =>
        \A t \in Turns :
            LET g2 == turn(game, t)
                d2 == IF t = "Left"
                      THEN CASE game.direction = "East"  -> "North"
                             [] game.direction = "North" -> "West"
                             [] game.direction = "West"  -> "South"
                             [] game.direction = "South" -> "East"
                      ELSE CASE game.direction = "East"  -> "South"
                             [] game.direction = "South" -> "West"
                             [] game.direction = "West"  -> "North"
                             [] game.direction = "North" -> "East"
            IN  /\ g2.direction = d2
                /\ [g2 EXCEPT !.direction = game.direction] = game
                /\ advance(g2) = [game |-> g2, change |-> NoChange]

\* turn() has run on a game that was already over, whose snake still has a
\* free cell of the board beside its head.
C14_Witness ==
    /\ last.op = "turn" /\ last.was_over /\ game.game_over
    /\ InBoard(Coordinate_advance(game.snake[1], game.direction))
    /\ Coordinate_advance(game.snake[1], game.direction) \notin game.active_cells

Min(a, b) == IF a <= b THEN a ELSE b
Max(a, b) == IF a >= b THEN a ELSE b

\* C15: absent collisions an advance() lengthens the snake by exactly 1 while
\* growth is pending and leaves its length alone once growth is 0: a fresh
\* game has 1 + n cells after n <= 3 advances and 4 from then on, and after
\* grow(k) on a fresh game the length after m advances is 1 + m until it
\* stabilises at 4 + k.
C15_LengthGrowsThenStabilises ==
    /\ ~game.game_over =>
          /\ Len(game.snake) = Min(1 + n, 4)
          /\ game.growth = Max(3 - n, 0)
          /\ LET r == advance(game)
             IN  ~r.game.game_over =>
                    Len(r.game.snake) =
                        Len(game.snake) + (IF game.growth > 0 THEN 1 ELSE 0)
    /\ n = 0 =>
          \A k \in 0..MaxGrowArg, m \in 0..MaxCalls :
              LET g == advance_times(grow(game, k), m)
              IN  ~g.game_over => Len(g.snake) = Min(1 + m, 4 + k)

\* A fresh game has made 5 advances and has had 4 cells since the third; on the
\* same board grow(2) would have let it reach 6 cells and keep them.
C15_Witness ==
    /\ ~game.game_over /\ n = 5 /\ Len(game.snake) = 4 /\ game.growth = 0
    /\ last.op = "advance" /\ last.change.removed # None
    /\ LET g == advance_times(grow(Game_new(game.width, game.height), 2), 7)
       IN  ~g.game_over /\ Len(g.snake) = 6

\* C16: the cells advance() reports as removed are the snake's cells, oldest
\* first. On a fresh game, whatever the turns, the first three advances remove
\* nothing, the fourth removes the initial head and the fifth the cell the
\* first advance added; in any running game with no growth pending, two
\* successive advances remove the tail and then the cell before it; and on a
\* fresh 20x20 game the first four advances return added (11,10), (12,10),
\* (13,10), (14,10) with removed none, none, none, (10,10).
C16_RemovedOldestFirst ==
    /\ last.op = "new" =>
          /\ \A ts \in [1..5 -> Polls] :
                LET c == changes_of(game, ts)
                IN  (c[1].added # None /\ c[2].added # None /\ c[3].added # None) =>
                      /\ c[1].removed = None /\ c[2].removed = None
                      /\ c[3].removed = None
                      /\ c[4].removed = Some(game.snake[1])
                      /\ c[4].added # None => c[5].removed = c[1].added
          /\ changes_of(Game_new(20, 20), <<None, None, None, None>>) =
                << [removed |-> None, added |-> Some([x |-> 11, y |-> 10])],
                   [removed |-> None, added |-> Some([x |-> 12, y |-> 10])],
                   [removed |-> None, added |-> Some([x |-> 13, y |-> 10])],
                   [removed |-> Some([x |-> 10, y |-> 10]),
                    added |-> Some([x |-> 14, y |-> 10])] >>
    /\ (~game.game_over /\ game.growth = 0) =>
          \A ts \in [1..2 -> Polls] :
              LET c == changes_of(game, ts)
              IN  /\ c[1].removed = Some(game.snake[Len(game.snake)])
                  /\ c[1].added # None =>
                        c[2].removed = Some(game.snake[Len(game.snake) - 1])

\* An advance on a bent snake of four cells has just removed its tail: the
\* removed cell is the one next to the present tail.
C16_Witness ==
    /\ ~game.game_over /\ last.op = "advance" /\ last.change.removed # None
    /\ Len(game.snake) = 4 /\ game.growth = 0
    /\ game.snake[1].x # game.snake[3].x /\ game.snake[1].y # game.snake[3].y
    /\ Abs(last.change.removed[1].x - game.snake[4].x)
         + Abs(last.change.removed[1].y - game.snake[4].y) = 1

\* The start cell of a w x h board, stated without division: the one whose
\* doubled coordinates are the largest even numbers not above w and h.
IsCentre(c, w, h) ==
    /\ 2 * c.x <= w /\ w <= 2 * c.x + 1
    /\ 2 * c.y <= h /\ h <= 2 * c.y + 1

\* C17: Game::new(w, h) yields a game that is not over, whose snake is the
\* single cell (w/2, h/2) (integer division), whose occupancy set is that one
\* cell and whose pending growth is 3; a 100x100 board starts at (50,50), a
\* 99x99 board at (49,49) and a 100x200 board at (50,100).
C17_NewGameShape ==
    /\ last.op = "new" =>
          /\ ~game.game_over
          /\ Len(game.snake) = 1
          /\ IsCentre(game.snake[1], game.width, game.height)
          /\ game.active_cells = {game.snake[1]}
          /\ game.growth = 3
          /\ \A w \in 0..MaxEastWidth, h \in 0..MaxEastWidth :
                LET g == Game_new(w, h)
                IN  /\ ~g.game_over /\ g.growth = 3
                    /\ g.width = w /\ g.height = h
                    /\ Len(g.snake) = 1 /\ IsCentre(g.snake[1], w, h)
                    /\ g.active_cells = {g.snake[1]}
    /\ Game_new(100, 100).snake = << [x |-> 50, y |-> 50] >>
    /\ Game_new(99, 99).snake = << [x |-> 49, y |-> 49] >>
    /\ Game_new(100, 200).snake = << [x |-> 50, y |-> 100] >>

\* A game has just been constructed on a 3x1 board: its only cell is (1,0).
C17_Witness ==
    /\ last.op = "new" /\ game.width = 3 /\ game.height = 1
    /\ game.snake = << [x |-> 1, y |-> 0] >>

\* i Lefts (or Rights) applied to d in a row.
RECURSIVE turns(_, _, _)
turns(d, t, i) == IF i = 0 THEN d ELSE turns(Direction_turn(d, t), t, i - 1)

\* C18: the turn table is a 4-cycle: for every direction d, a Left gives a
\* direction other than d, a Left then a Right and a Right then a Left give d,
\* and four Lefts or four Rights give d; fewer than four equal turns do not.
C18_TurnTableIsFourCycle ==
    /\ last.op = "new" => \A d \in Directions :
          /\ Direction_turn(d, "Left") \in Directions \ {d}
          /\ Direction_turn(d, "Right") \in Directions \ {d}
          /\ Direction_turn(Direction_turn(d, "Left"), "Right") = d
          /\ Direction_turn(Direction_turn(d, "Right"), "Left") = d
          /\ \A t \in Turns :
                /\ turns(d, t, 4) = d
                /\ {turns(d, t, i) : i \in 0..3} = Directions
    /\ \A t \in Turns :
          /\ turn(turn(game, "Left"), "Right").direction = game.direction
          /\ turn(turn(game, "Right"), "Left").direction = game.direction
          /\ turn(turn(turn(turn(game, t), t), t), t) = game

\* The game has been turned and now heads West, the direction reached only by
\* two turns from the initial East.
C18_Witness ==
    last.op = "turn" /\ game.direction = "West"

\* C19: advancing a coordinate adds East (+1,0), West (-1,0), North (0,-1),
\* South (0,+1): for every cell of the snake, for every coordinate of a new
\* board and of the ring around it, and for the tests' (100,200), the result
\* is at Manhattan distance 1, and advancing North, East, South, West in turn
\* comes back to the start.
C19_AdvanceUnitDelta ==
    \A c \in Cells(game.snake) \cup {[x |-> 100, y |-> 200]} \cup
             (IF last.op = "new"
              THEN [x : -1..game.width, y : -1..game.height] ELSE {}) :
        /\ Coordinate_advance(c, "East")  = [x |-> c.x + 1, y |-> c.y]
        /\ Coordinate_advance(c, "West")  = [x |-> c.x - 1, y |-> c.y]
        /\ Coordinate_advance(c, "North") = [x |-> c.x, y |-> c.y - 1]
        /\ Coordinate_advance(c, "South") = [x |-> c.x, y |-> c.y + 1]
        /\ \A d \in Directions :
              LET a == Coordinate_advance(c, d)
              IN  Abs(a.x - c.x) + Abs(a.y - c.y) = 1
        /\ Coordinate_advance(Coordinate_advance(Coordinate_advance(
               Coordinate_advance(c, "North"), "East"), "South"), "West") = c

\* An advance heading North has just added a head one row above the cell
\* behind it.
C19_Witness ==
    /\ last.op = "advance" /\ last.change.added # None
    /\ game.direction = "North" /\ Len(game.snake) >= 2
    /\ game.snake[1].x = game.snake[2].x
    /\ game.snake[1].y = game.snake[2].y - 1

\* C20: every existing game has width > 0 and height > 0, construction with a
\* zero dimension being rejected. Game::new has no such check.
C20_BoardDimensionsPositive ==
    game.width > 0 /\ game.height > 0

\* C21: on every advance() of a game that is not over exactly one of two
\* things happens before the collision check: with growth pending, growth
\* goes down by one, no cell is removed and the whole old snake stays; with
\* none, growth stays 0 and the tail leaves the snake and is returned as
\* removed (and leaves the occupancy set, unless the new head re-enters that
\* cell). Never both and never neither.
C21_GrowthOrTailRemoval ==
    ~game.game_over =>
        LET r    == advance(game)
            len  == Len(game.snake)
            kept == IF r.change.added = None THEN r.game.snake
                    ELSE Tail(r.game.snake)
        IN  /\ game.growth > 0 =>
                  /\ r.game.growth = game.growth - 1
                  /\ r.change.removed = None
                  /\ kept = game.snake
                  /\ game.active_cells \subseteq r.game.active_cells
            /\ game.growth = 0 =>
                  /\ r.game.growth = 0
                  /\ r.change.removed = Some(game.snake[len])
                  /\ kept = SubSeq(game.snake, 1, len - 1)
                  /\ game.snake[len] \in r.game.active_cells
                        <=> r.change.added = Some(game.snake[len])
            /\ (r.game.growth = game.growth - 1) # (r.change.removed # None)

\* The first advance of a new game has used one of the three units of growth:
\* it removed nothing and the snake has two cells.
C21_Witness ==
    /\ last.op = "advance" /\ ~last.was_over /\ ~game.game_over
    /\ game.growth = 2 /\ last.change.removed = None
    /\ last.change.added # None /\ Len(game.snake) = 2

\* C22: with no growth pending and the new head being the cell the tail is
\* on, advance() does not end the game: the tail is vacated first, the head
\* enters that cell and the change reports the one coordinate as both removed
\* and added.
C22_HeadMayEnterVacatedTail ==
    (/\ ~game.game_over /\ game.growth = 0
     /\ Coordinate_advance(game.snake[1], game.direction)
          = game.snake[Len(game.snake)]) =>
        LET r    == advance(game)
            tail == game.snake[Len(game.snake)]
        IN  /\ ~r.game.game_over
            /\ r.change = SnakeChange(Some(tail), Some(tail))
            /\ r.game.snake = <<tail>> \o SubSeq(game.snake, 1, Len(game.snake) - 1)
            /\ r.game.active_cells = game.active_cells

\* An advance has just moved the head into the cell it removed the tail from.
C22_Witness ==
    /\ last.op = "advance" /\ ~game.game_over
    /\ last.change.removed # None
    /\ last.change.added = last.change.removed
    /\ game.snake[1] = last.change.removed[1]

\* The movement delta of a direction.
Delta(d) == Coordinate_advance([x |-> 0, y |-> 0], d)

\* C23: the turn table is a quarter rotation of the movement deltas on a grid
\* whose y grows downwards: for every direction with delta (dx,dy), Left gives
\* the direction with delta (dy,-dx) and Right the one with delta (-dy,dx);
\* heading East, a step that polls Left adds the head one row up and a step
\* that polls Right one row down.
C23_TurnRotatesDelta ==
    /\ \A d \in Directions :
          /\ Delta(Direction_turn(d, "Left"))  = [x |-> Delta(d).y, y |-> -Delta(d).x]
          /\ Delta(Direction_turn(d, "Right")) = [x |-> -Delta(d).y, y |-> Delta(d).x]
    /\ ~game.game_over =>
          \A t \in Turns :
              LET r  == game_step(counter, game, Some(t))
                  h  == game.snake[1]
                  dl == Delta(game.direction)
                  rot == IF t = "Left" THEN [x |-> dl.y, y |-> -dl.x]
                         ELSE [x |-> -dl.y, y |-> dl.x]
              IN  /\ r.change.added # None =>
                        r.change.added = Some([x |-> h.x + rot.x, y |-> h.y + rot.y])
                  /\ (game.direction = "East" /\ r.change.added # None) =>
                        /\ r.change.added[1].x = h.x
                        /\ r.change.added[1].y = IF t = "Left" THEN h.y - 1 ELSE h.y + 1

\* The first step of a game heading East polled Right: the head it added is
\* one row below the start cell.
C23_Witness ==
    /\ last.op = "game_step" /\ last.change.added # None
    /\ Len(game.snake) = 2 /\ game.direction = "South"
    /\ game.snake[1].x = game.snake[2].x
    /\ game.snake[1].y = game.snake[2].y + 1

\* C26: when the game is driven through game_step only, so that at most one
\* Turn precedes each advance, the head never moves into the cell directly
\* behind it, and a step ends the game on a cell inside the board (a
\* self-collision) only when the snake has at least 4 cells after that step's
\* tail handling; with fewer cells the game ends only by leaving the board.
C26_NoReversalUnderGameStep ==
    ~game.game_over =>
        \A p \in Polls :
            LET r  == game_step(counter, game, p)
                nf == Coordinate_advance(game.snake[1], r.game.direction)
            IN  /\ Len(game.snake) >= 2 => nf # game.snake[2]
                /\ (r.game.game_over /\ InBoard(nf)) =>
                      /\ nf \in Cells(r.game.snake)
                      /\ Len(r.game.snake) >= 4
                /\ (r.game.game_over /\ Len(r.game.snake) < 4) => ~InBoard(nf)

\* A step has just ended the game by running the head into the snake's fourth
\* cell, inside the board, with growth pending so that the tail had stayed.
C26_Witness ==
    /\ game.game_over /\ last.op = "game_step" /\ ~last.was_over
    /\ Len(game.snake) = 4 /\ last.change.removed = None
    /\ Coordinate_advance(game.snake[1], game.direction) = game.snake[4]

\* C27: the advance() that ends the game still handles the tail before the
\* collision check: with no growth pending the tail leaves the snake and the
\* occupancy set, the change is {removed: tail, added: none} and the snake is
\* one cell shorter; with growth pending it goes down by one, the snake is
\* unchanged and the change is {removed: none, added: none}.
C27_TailHandledOnFinalAdvance ==
    (~game.game_over /\ advance(game).game.game_over) =>
        LET r   == advance(game)
            len == Len(game.snake)
        IN  /\ game.growth = 0 =>
                  /\ r.change = SnakeChange(Some(game.snake[len]), None)
                  /\ r.game.snake = SubSeq(game.snake, 1, len - 1)
                  /\ Len(r.game.snake) = len - 1
                  /\ r.game.active_cells = game.active_cells \ {game.snake[len]}
                  /\ r.game.growth = 0
            /\ game.growth > 0 =>
                  /\ r.change = NoChange
                  /\ r.game.snake = game.snake
                  /\ r.game.active_cells = game.active_cells
                  /\ r.game.growth = game.growth - 1
            /\ r.game.direction = game.direction
            /\ r.game.width = game.width /\ r.game.height = game.height

\* An advance with no growth pending has just ended the game: it returned the
\* tail as removed and nothing as added, and three of the four cells remain.
C27_Witness ==
    /\ game.game_over /\ last.op = "advance" /\ ~last.was_over
    /\ last.change.removed # None /\ last.change.added = None
    /\ last.change.removed[1] \notin game.active_cells
    /\ Len(game.snake) = 3 /\ game.growth = 0

\* C24: in both front-end drivers no game_step runs once game_over is true:
\* from then on the game, the counter, the record of the last call and what
\* the display was told never change, so the display has received game_over
\* at most once, exactly once when the game is over, and no update after it.
C24_DriversStopAtGameOver ==
    /\ [](/\ shown.overs <= 1
          /\ ~shown.late
          /\ game.game_over <=> shown.overs = 1)
    /\ [][game.game_over =>
            /\ game' = game /\ counter' = counter
            /\ last' = last /\ shown' = shown]_vars

\* The browser game has ended: the frame that stepped it told the display
\* game_over once and requested no further frame.
C24_Witness ==
    /\ game.game_over /\ pending = "idle" /\ frames = 0
    /\ last.op = "game_step" /\ Notified(last.calls, "game_over")
    /\ shown.overs = 1 /\ Len(game.snake) = 4

\* C25: on a board with width and height > 0, game_step called again and
\* again on a fresh game with the counter at 0 eventually sets game_over,
\* whatever the input returns.
C25_GameEventuallyOver ==
    <>(game.game_over)

\* The step that reset the counter and added the periodic growth has ended a
\* game whose snake filled the board.
C25_Witness ==
    /\ game.game_over /\ last.op = "game_step" /\ ~last.was_over
    /\ last.grown = StepGrowth /\ counter = 0
    /\ Len(game.snake) = game.width * game.height
    /\ game.growth > 0

====
